---- MODULE Spec2Model ----
(***************************************************************************)
(* A model of the semantic core of Pikelet: the normalizer, the            *)
(* bidirectional type checker (check / infer), the module checker and the  *)
(* concrete-to-core desugarer that feeds them.                             *)
(*                                                                         *)
(* Terms, values and neutral forms are tagged tuples in locally nameless   *)
(* form: <<"Var", <<"Free", name>>>> and <<"Var", <<"Bound", index>>>>.    *)
(* A scope is <<"Pi" | "Lam", name, ann, body>>: the pattern (name,        *)
(* Embed(ann)) and the body, in which index 0 refers to the pattern.       *)
(* Source spans (SourceMeta) are left out: no rule reads them.             *)
(*                                                                         *)
(* Every function that can call GenId::fresh() takes the value of the      *)
(* global counter and returns the new one with its result:                 *)
(* <<"Ok", value, gen>> or <<"Err", error, gen>>.                          *)
(***************************************************************************)
EXTENDS Integers, Sequences, FiniteSets, TLC

---------------------------------------------------------------------------
(* Bounds of the model *)

\* Depth of nested calls the stack holds before the process dies.
StackDepth == 40

\* An operation starts only while the global fresh-name counter is below this.
MaxGenId == 1

\* Entries a context is extended to before a call is made in it.
MaxContext == 2

\* Groups of declarations per module.
MaxDefinitions == 3

\* Highest universe level written in the terms whose level is inferred.
MaxLevel == 2

---------------------------------------------------------------------------
(* Names: nameless::Name *)

User(s) == <<"User", s>>
Gen(n) == <<"Gen", n>>

Free(name) == <<"Var", <<"Free", name>>>>
Bound(i) == <<"Var", <<"Bound", i>>>>

Universe(level) == <<"Universe", level>>
Constant(c) == <<"Constant", c>>
Hole == <<"Hole">>
Ann(expr, ty) == <<"Ann", expr, ty>>
App(fn, arg) == <<"App", fn, arg>>
Neutral(n) == <<"Neutral", n>>

Ok(v, gen) == <<"Ok", v, gen>>
Err(e, gen) == <<"Err", e, gen>>
IsOk(r) == r[1] = "Ok"

\* The `?` operator: an Err returns from the function, an Ok goes on.
Try(r, K(_)) == IF IsOk(r) THEN K(r) ELSE r

\* `let v = ...;` followed by the rest of the function.
Then(v, K(_)) == K(v)

RECURSIVE open(_, _, _)
\* BoundTerm::open: the bound variable of index d becomes the free name.
open(t, name, d) ==
    CASE t[1] = "Var" ->
            IF t[2] = <<"Bound", d>> THEN Free(name) ELSE t
      [] t[1] \in {"Pi", "Lam"} ->
            <<t[1], t[2], open(t[3], name, d), open(t[4], name, d + 1)>>
      [] t[1] \in {"Ann", "App"} ->
            <<t[1], open(t[2], name, d), open(t[3], name, d)>>
      [] t[1] = "Neutral" -> <<"Neutral", open(t[2], name, d)>>
      [] OTHER -> t

RECURSIVE close(_, _, _)
\* BoundTerm::close: the free name becomes the bound variable of index d.
close(t, name, d) ==
    CASE t[1] = "Var" ->
            IF t[2] = <<"Free", name>> THEN Bound(d) ELSE t
      [] t[1] \in {"Pi", "Lam"} ->
            <<t[1], t[2], close(t[3], name, d), close(t[4], name, d + 1)>>
      [] t[1] \in {"Ann", "App"} ->
            <<t[1], close(t[2], name, d), close(t[3], name, d)>>
      [] t[1] = "Neutral" -> <<"Neutral", close(t[2], name, d)>>
      [] OTHER -> t

\* Scope::bind((name, Embed(ann)), body)
bind(tag, name, ann, body) == <<tag, name, ann, close(body, name, 0)>>

\* nameless::unbind: the pattern's name is freshened from the global counter
\* and the body opened against it.
unbind(scope, gen) ==
    [name |-> Gen(gen), ann |-> scope[3],
     body |-> open(scope[4], Gen(gen), 0), gen |-> gen + 1]

\* nameless::unbind2: both scopes are opened against the same fresh name.
unbind2(scope1, scope2, gen) ==
    [name |-> Gen(gen),
     ann1 |-> scope1[3], body1 |-> open(scope1[4], Gen(gen), 0),
     ann2 |-> scope2[3], body2 |-> open(scope2[4], Gen(gen), 0),
     gen |-> gen + 1]

RECURSIVE term_eq(_, _)
\* BoundTerm::term_eq: structural equality that ignores the names kept in
\* patterns, i.e. alpha-equivalence of locally nameless trees.
term_eq(a, b) ==
    IF a[1] # b[1] THEN FALSE
    ELSE CASE a[1] \in {"Pi", "Lam"} -> term_eq(a[3], b[3]) /\ term_eq(a[4], b[4])
           [] a[1] \in {"Ann", "App"} -> term_eq(a[2], b[2]) /\ term_eq(a[3], b[3])
           [] a[1] = "Neutral" -> term_eq(a[2], b[2])
           [] OTHER -> a = b

RECURSIVE TermFromValue(_)
\* impl From<&Value> for Term (and From<&Neutral>): the embedding of values
\* in terms; the argument of a neutral application is a term already.
TermFromValue(v) ==
    CASE v[1] \in {"Pi", "Lam"} ->
            <<v[1], v[2], TermFromValue(v[3]), TermFromValue(v[4])>>
      [] v[1] = "Neutral" -> TermFromValue(v[2])
      [] v[1] = "App" -> App(TermFromValue(v[2]), v[3])
      [] OTHER -> v

---------------------------------------------------------------------------
(* Context: syntax::core::Context *)

extend_lam(ctx, name, ann) == Append(ctx, <<"Lam", name, ann>>)
extend_pi(ctx, name, ann) == Append(ctx, <<"Pi", name, ann>>)
extend_let(ctx, name, ann, value) == Append(ctx, <<"Let", name, ann, value>>)

None == <<"None">>

\* Context::lookup_binder: the most recently added entry for the name.
lookup_binder(ctx, name) ==
    LET hits == {i \in 1..Len(ctx) : ctx[i][2] = name}
    IN IF hits = {} THEN None
       ELSE ctx[CHOOSE i \in hits : \A j \in hits : j <= i]

---------------------------------------------------------------------------
(* Errors: semantics::errors *)

\* The call stack is finite: a recursion that never returns ends the process
\* with a stack overflow instead of a value. It is no Ok and no Err of the
\* program; the model carries it in the error slot so that it propagates.
StackOverflow == <<"StackOverflow">>

InternalError(kind, data) == <<"InternalError", kind, data>>
TypeError(kind, data) == <<"TypeError", kind, data>>

\* impl From<InternalError> for TypeError, applied by `?` in check and infer.
FromInternal(r) ==
    IF r[2][1] = "InternalError" THEN Err(TypeError("Internal", r[2]), r[3]) ELSE r

---------------------------------------------------------------------------
(* Normalization: semantics::normalize *)

\* The universe of the level above, where EVAL/TYPE keeps the level.
EvalTypeAbove(level) == Universe(level + 1)

\* EVAL/TYPE: a universe is its own normal form.
EvalType(level) == Universe(level)

\* A name without entry left where it is, like a lambda-bound one.
eval_var_neutral(var, gen) == Ok(Neutral(<<"Var", var>>), gen)

\* The arm of normalize for a free variable whose name has no entry.
eval_var_none(var, gen) == Err(InternalError("UndefinedName", var[2]), gen)

RECURSIVE normalize(_, _, _, _)
normalize(context, term, gen, depth) ==
    IF depth = 0 THEN Err(StackOverflow, gen)
    ELSE CASE term[1] = "Ann" -> normalize(context, term[2], gen, depth - 1)
           [] term[1] = "Universe" -> Ok(EvalType(term[2]), gen)
           [] term[1] = "Constant" -> Ok(Constant(term[2]), gen)
           [] term[1] = "Var" ->
                IF term[2][1] = "Free"
                THEN LET binder == lookup_binder(context, term[2][2])
                     IN CASE binder[1] \in {"Lam", "Pi"} ->
                                Ok(Neutral(<<"Var", term[2]>>), gen)
                          [] binder[1] = "Let" ->
                                normalize(context, binder[4], gen, depth - 1)
                          [] OTHER -> eval_var_none(term[2], gen)
                ELSE Err(InternalError("UnsubstitutedDebruijnIndex", term[2][2]), gen)
           [] term[1] \in {"Pi", "Lam"} ->
                LET u == unbind(term, gen)
                IN Try(normalize(context, u.ann, u.gen, depth - 1), LAMBDA ann :
                   Try(normalize(IF term[1] = "Pi"
                                 THEN extend_pi(context, u.name, ann[2])
                                 ELSE extend_lam(context, u.name, ann[2]),
                                 u.body, ann[3], depth - 1), LAMBDA body :
                   Ok(bind(term[1], u.name, ann[2], body[2]), body[3])))
           [] term[1] = "App" ->
                Try(normalize(context, term[2], gen, depth - 1), LAMBDA fn_value :
                CASE fn_value[2][1] = "Lam" ->
                        LET u == unbind(fn_value[2], fn_value[3])
                        IN normalize(extend_let(context, u.name, u.ann, term[3]),
                                     TermFromValue(u.body), u.gen, depth - 1)
                  [] fn_value[2][1] = "Neutral" ->
                        Ok(Neutral(<<"App", fn_value[2][2], term[3]>>), fn_value[3])
                  [] OTHER ->
                        Err(InternalError("ArgumentAppliedToNonFunction", <<>>),
                            fn_value[3]))

---------------------------------------------------------------------------
(* Constants: syntax::core::{RawConstant, Constant} *)

\* Raw literals are <<"Int", n>>, <<"Float", n>>, <<"String", s>>, <<"Char", c>>;
\* elaborated literals carry their kind, <<"U8", n>> ... <<"F64", n>>; the
\* twelve type names are <<"StringType">> ... <<"F64Type">> on both sides.
\* An integer is held as the machine holds it: the sequence of its bytes, the
\* least significant first, 8 of them for the u64 of a raw literal and
\* width/8 for an elaborated one (two's complement for the signed kinds).
\* A float is held as a number; the floats of the model are whole.
TypeNames ==
    {"StringType", "CharType", "U8Type", "U16Type", "U32Type", "U64Type",
     "I8Type", "I16Type", "I32Type", "I64Type", "F32Type", "F64Type"}

RECURSIVE Pow2(_)
Pow2(n) == IF n = 0 THEN 1 ELSE 2 * Pow2(n - 1)

RECURSIVE Bytes(_, _)
\* The k low bytes of the number n.
Bytes(n, k) == IF k = 0 THEN <<>> ELSE <<n % 256>> \o Bytes(n \div 256, k - 1)

RECURSIVE Unsigned(_)
\* The number a sequence of bytes holds, where it is below 2^31.
Unsigned(bytes) ==
    IF bytes = <<>> THEN 0 ELSE bytes[1] + 256 * Unsigned(Tail(bytes))

\* `value as uN` where the cast saturates: the highest value of the width
\* when the number does not fit.
AsUnsignedSaturating(value, bits) ==
    IF \A i \in (bits \div 8 + 1)..Len(value) : value[i] = 0
    THEN SubSeq(value, 1, bits \div 8)
    ELSE [i \in 1..(bits \div 8) |-> 255]

\* `value as uN`: the low N bits.
AsUnsigned(value, bits) == SubSeq(value, 1, bits \div 8)

\* `value as iN`: the low N bits, read as two's complement by the kind.
AsSigned(value, bits) == SubSeq(value, 1, bits \div 8)

RECURSIVE BitLength(_)
BitLength(n) == IF n = 0 THEN 0 ELSE 1 + BitLength(n \div 2)

\* `value as fN` for a non-negative whole number: the nearest value with a
\* mantissa of the given number of bits, ties to even.
AsFloat(value, mantissa) ==
    IF BitLength(value) <= mantissa THEN value
    ELSE LET ulp == Pow2(BitLength(value) - mantissa)
             q == value \div ulp
             r == value % ulp
             up == (2 * r > ulp) \/ (2 * r = ulp /\ q % 2 = 1)
         IN IF up THEN (q + 1) * ulp ELSE q * ulp

\* check::check_const. The literals given to the casts to f32 and f64 stay
\* below 2^31, where a mantissa of 53 bits keeps the value.
check_const(c, c_ty) ==
    CASE c[1] = "Int" /\ c_ty[1] = "U8Type" -> <<"U8", AsUnsigned(c[2], 8)>>
      [] c[1] = "Int" /\ c_ty[1] = "U16Type" -> <<"U16", AsUnsigned(c[2], 16)>>
      [] c[1] = "Int" /\ c_ty[1] = "U32Type" -> <<"U32", AsUnsigned(c[2], 32)>>
      [] c[1] = "Int" /\ c_ty[1] = "U64Type" -> <<"U64", c[2]>>
      [] c[1] = "Int" /\ c_ty[1] = "I8Type" -> <<"I8", AsSigned(c[2], 8)>>
      [] c[1] = "Int" /\ c_ty[1] = "I16Type" -> <<"I16", AsSigned(c[2], 16)>>
      [] c[1] = "Int" /\ c_ty[1] = "I32Type" -> <<"I32", AsSigned(c[2], 32)>>
      [] c[1] = "Int" /\ c_ty[1] = "I64Type" -> <<"I64", AsSigned(c[2], 64)>>
      [] c[1] = "Int" /\ c_ty[1] = "F32Type" -> <<"F32", AsFloat(Unsigned(c[2]), 24)>>
      [] c[1] = "Int" /\ c_ty[1] = "F64Type" -> <<"F64", Unsigned(c[2])>>
      [] c[1] = "Float" /\ c_ty[1] = "F32Type" -> <<"F32", AsFloat(c[2], 24)>>
      [] c[1] = "Float" /\ c_ty[1] = "F64Type" -> <<"F64", c[2]>>
      [] OTHER -> None

\* An integer literal given the widest unsigned type, where inference has
\* nothing to choose a type by.
infer_const_defaulting(c, gen) ==
    CASE c[1] = "String" -> Ok(<<Constant(c), Constant(<<"StringType">>)>>, gen)
      [] c[1] = "Char" -> Ok(<<Constant(c), Constant(<<"CharType">>)>>, gen)
      [] c[1] = "Int" -> Ok(<<Constant(<<"U64", c[2]>>), Constant(<<"U64Type">>)>>, gen)
      [] c[1] = "Float" -> Err(TypeError("AmbiguousFloatLiteral", <<>>), gen)
      [] OTHER -> Ok(<<Constant(c), Universe(0)>>, gen)

\* infer::infer_const
infer_const(c, gen) ==
    CASE c[1] = "String" -> Ok(<<Constant(c), Constant(<<"StringType">>)>>, gen)
      [] c[1] = "Char" -> Ok(<<Constant(c), Constant(<<"CharType">>)>>, gen)
      [] c[1] = "Int" -> Err(TypeError("AmbiguousIntLiteral", <<>>), gen)
      [] c[1] = "Float" -> Err(TypeError("AmbiguousFloatLiteral", <<>>), gen)
      [] OTHER -> Ok(<<Constant(c), Universe(0)>>, gen)

\* Level::succ
succ(level) == level + 1

\* The lower of two levels, where INFER/PI takes the higher.
min(a, b) == IF a <= b THEN a ELSE b

\* std::cmp::max on levels
max(a, b) == IF a >= b THEN a ELSE b

---------------------------------------------------------------------------
(* Checking and inference: semantics::check, semantics::infer *)

RECURSIVE check(_, _, _, _, _)
RECURSIVE infer(_, _, _, _)

\* Every inferred type let through, one that is no universe at level 0.
infer_universe_lenient(context, term, gen, depth) ==
    Try(infer(context, term, gen, depth), LAMBDA r :
    Ok(<<r[2][1], IF r[2][2][1] = "Universe" THEN r[2][2][2] ELSE 0>>, r[3]))

\* infer::infer_universe: Ok carries <<elaborated term, level>>.
infer_universe(context, term, gen, depth) ==
    Try(infer(context, term, gen, depth), LAMBDA r :
    IF r[2][2][1] = "Universe" THEN Ok(<<r[2][1], r[2][2][2]>>, r[3])
    ELSE Err(TypeError("ExpectedUniverse", r[2][2]), r[3]))

\* The CHECK/INFER rule that ends check: infer the term and compare the types.
check_infer(context, term, expected, gen, depth) ==
    Try(infer(context, term, gen, depth - 1), LAMBDA r :
    IF term_eq(r[2][2], expected) THEN Ok(r[2][1], r[3])
    ELSE Err(TypeError("Mismatch", <<r[2][2], expected>>), r[3]))

\* A lambda against a type that is no Pi handed on to inference like any
\* other term.
check_lam_inferred(context, term, expected, gen, depth) ==
    check_infer(context, term, expected, gen, depth)

\* The arm of check for a lambda against a type that is no Pi.
check_lam_non_pi(context, term, expected, gen, depth) ==
    Err(TypeError("UnexpectedFunction", expected), gen)

\* A hole taken as elaborated and left where it is.
check_hole_accepted(expected, gen) == Ok(Hole, gen)

\* The arm of check for a hole: nothing tells what to put in its place.
check_hole(expected, gen) ==
    Err(TypeError("UnableToElaborateHole", <<"Some", expected>>), gen)

check(context, term, expected, gen, depth) ==
    IF depth = 0 THEN Err(StackOverflow, gen)
    ELSE CASE term[1] = "Lam" /\ expected[1] = "Pi" ->
                LET u == unbind2(term, expected, gen)
                IN IF u.ann1[1] = "Hole"
                   THEN Try(check(extend_pi(context, u.name, u.ann2), u.body1, u.body2,
                                  u.gen, depth - 1), LAMBDA elab_lam_body :
                        Ok(bind("Lam", u.name, TermFromValue(u.ann2), elab_lam_body[2]),
                           elab_lam_body[3]))
                   ELSE check_infer(context, term, expected, u.gen, depth)
           [] term[1] = "Constant" /\ expected[1] = "Constant" ->
                LET c == check_const(term[2], expected[2])
                IN IF c # None THEN Ok(Constant(c), gen)
                   ELSE check_infer(context, term, expected, gen, depth)
           [] term[1] = "Lam" /\ expected[1] # "Pi" ->
                check_lam_non_pi(context, term, expected, gen, depth)
           [] term[1] = "Hole" -> check_hole(expected, gen)
           [] OTHER -> check_infer(context, term, expected, gen, depth)

\* The type of a let-bound name taken from the entry's value.
infer_var_value(term, binder, gen) ==
    Ok(<<term, IF binder[1] = "Let" THEN binder[4] ELSE binder[3]>>, gen)

\* INFER/VAR-LAM, INFER/VAR-PI, INFER/VAR-LET: the annotation of the entry.
infer_var(term, binder, gen) == Ok(<<term, binder[3]>>, gen)

\* The error of INFER/APP with the elaborated function in place of its type.
arg_applied_to_term(elab_fn_expr, fn_ty, gen) ==
    Err(TypeError("ArgAppliedToNonFunction", elab_fn_expr), gen)

\* INFER/APP when the type of the function is no Pi.
arg_applied_to_non_function(elab_fn_expr, fn_ty, gen) ==
    Err(TypeError("ArgAppliedToNonFunction", fn_ty), gen)

\* The type of a lambda built over the annotation as it was elaborated, not
\* over its value.
infer_lam_unnormalized(name, lam_ann, pi_ann, lam_body, pi_body, gen) ==
    Ok(<<bind("Lam", name, lam_ann, lam_body), bind("Pi", name, lam_ann, pi_body)>>,
       gen)

\* What INFER/LAM returns: the lambda over the elaborated annotation and body,
\* and the Pi over the annotation's value and the body's type, both bound
\* over the name the scope was opened with.
infer_lam(name, lam_ann, pi_ann, lam_body, pi_body, gen) ==
    Ok(<<bind("Lam", name, lam_ann, lam_body), bind("Pi", name, pi_ann, pi_body)>>,
       gen)

infer(context, term, gen, depth) ==
    IF depth = 0 THEN Err(StackOverflow, gen)
    ELSE CASE term[1] = "Ann" ->
                Try(infer_universe(context, term[3], gen, depth - 1), LAMBDA ty :
                Try(FromInternal(normalize(context, ty[2][1], ty[3], depth - 1)),
                    LAMBDA simp_ty :
                Try(check(context, term[2], simp_ty[2], simp_ty[3], depth - 1),
                    LAMBDA elab_expr :
                Ok(<<Ann(elab_expr[2], ty[2][1]), simp_ty[2]>>, elab_expr[3]))))
           [] term[1] = "Universe" ->
                Ok(<<Universe(term[2]), Universe(succ(term[2]))>>, gen)
           [] term[1] = "Hole" ->
                Err(TypeError("UnableToElaborateHole", None), gen)
           [] term[1] = "Constant" -> infer_const(term[2], gen)
           [] term[1] = "Var" ->
                IF term[2][1] = "Free"
                THEN LET binder == lookup_binder(context, term[2][2])
                     IN IF binder = None
                        THEN Err(TypeError("UndefinedName", term[2][2]), gen)
                        ELSE infer_var(term, binder, gen)
                ELSE FromInternal(
                        Err(InternalError("UnsubstitutedDebruijnIndex", term[2][2]), gen))
           [] term[1] = "Pi" ->
                LET u == unbind(term, gen)
                IN Try(infer_universe(context, u.ann, u.gen, depth - 1), LAMBDA ann :
                   Try(FromInternal(normalize(context, ann[2][1], ann[3], depth - 1)),
                       LAMBDA simp_ann :
                   Try(infer_universe(extend_pi(context, u.name, simp_ann[2]), u.body,
                                      simp_ann[3], depth - 1), LAMBDA body :
                   Ok(<<bind("Pi", u.name, ann[2][1], body[2][1]),
                        Universe(max(ann[2][2], body[2][2]))>>, body[3]))))
           [] term[1] = "Lam" ->
                LET u == unbind(term, gen)
                IN IF u.ann[1] = "Hole"
                   THEN Err(TypeError("FunctionParamNeedsAnnotation", u.name), u.gen)
                   ELSE Try(infer_universe(context, u.ann, u.gen, depth - 1),
                            LAMBDA lam_ann :
                        Try(FromInternal(normalize(context, lam_ann[2][1], lam_ann[3],
                                                   depth - 1)), LAMBDA pi_ann :
                        Try(infer(extend_lam(context, u.name, pi_ann[2]), u.body,
                                  pi_ann[3], depth - 1), LAMBDA body :
                        infer_lam(u.name, lam_ann[2][1], pi_ann[2], body[2][1],
                                  body[2][2], body[3]))))
           [] term[1] = "App" ->
                Try(infer(context, term[2], gen, depth - 1), LAMBDA fn :
                IF fn[2][2][1] = "Pi"
                THEN LET u == unbind(fn[2][2], fn[3])
                     IN Try(check(context, term[3], u.ann, u.gen, depth - 1),
                            LAMBDA arg_expr :
                        Try(FromInternal(normalize(
                                extend_let(context, u.name, u.ann, arg_expr[2]),
                                TermFromValue(u.body), arg_expr[3], depth - 1)),
                            LAMBDA body :
                        Ok(<<App(fn[2][1], arg_expr[2]), body[2]>>, body[3])))
                ELSE arg_applied_to_non_function(fn[2][1], fn[2][2], fn[3]))

---------------------------------------------------------------------------
(* Desugaring: syntax::translation::concrete_to_core *)

\* concrete::Term
CParens(t) == <<"Parens", t>>
CAnn(expr, ty) == <<"Ann", expr, ty>>
CUniverse(level) == <<"Universe", level>>
CHole == <<"Hole">>
CString(s) == <<"String", s>>
CChar(c) == <<"Char", c>>
CInt(n) == <<"Int", n>>
CFloat(n) == <<"Float", n>>
CVar(x) == <<"Var", x>>
CPi(names, ann, body) == <<"Pi", names, ann, body>>
CLam(params, body) == <<"Lam", params, body>>
CArrow(ann, body) == <<"Arrow", ann, body>>
CApp(fn, arg) == <<"App", fn, arg>>
Some(x) == <<"Some", x>>

\* The parameter groups of a lambda, one (name, annotation) pair per name.
RECURSIVE FlatParams(_)
FlatParams(params) ==
    IF params = <<>> THEN <<>>
    ELSE [i \in 1..Len(params[1][1]) |-> <<params[1][1][i], params[1][2]>>]
         \o FlatParams(Tail(params))

RECURSIVE to_core(_, _)
RECURSIVE pi_names(_, _, _, _)
RECURSIVE pi_names_forward(_, _, _, _)
RECURSIVE lam_names(_, _, _, _)

\* The names taken from the first to the last, so that the last one written
\* is bound outermost.
pi_names_forward(names, i, ann, term) ==
    IF i = 0 THEN term
    ELSE pi_names_forward(names, i - 1, ann,
                          bind("Pi", User(names[Len(names) + 1 - i]), ann, term))

\* The loop of pi_to_core: names from the last to the first, every one with
\* the same desugared annotation.
pi_names(names, i, ann, term) ==
    IF i = 0 THEN term
    ELSE pi_names(names, i - 1, ann, bind("Pi", User(names[i]), ann, term))

\* The loops of lam_to_core: names from the last to the first, the annotation
\* desugared anew for every name.
lam_names(flat, i, term, gen) ==
    IF i = 0 THEN <<term, gen>>
    ELSE Then(IF flat[i][2] = None THEN <<Hole, gen>> ELSE to_core(flat[i][2][2], gen),
              LAMBDA ann :
         lam_names(flat, i - 1, bind("Lam", User(flat[i][1]), ann[1], term), ann[2]))

pi_to_core(names, ann, body, gen) ==
    Then(to_core(ann, gen), LAMBDA a :
    Then(to_core(body, a[2]), LAMBDA b :
    <<pi_names(names, Len(names), a[1], b[1]), b[2]>>))

lam_to_core(params, body, gen) ==
    Then(to_core(body, gen), LAMBDA b :
    Then(FlatParams(params), LAMBDA flat :
    lam_names(flat, Len(flat), b[1], b[2])))

\* The name the tests write for the binder of an arrow: a user name.
arrow_name_user(gen) == User("_")

\* Name::from(GenId::fresh()): the binder of a desugared arrow.
arrow_name(gen) == Gen(gen)

\* impl ToCore<core::RcRawTerm> for concrete::Term: <<raw term, counter>>.
to_core(c, gen) ==
    CASE c[1] = "Parens" -> to_core(c[2], gen)
      [] c[1] = "Ann" ->
            Then(to_core(c[2], gen), LAMBDA expr :
            Then(to_core(c[3], expr[2]), LAMBDA ty :
            <<Ann(expr[1], ty[1]), ty[2]>>))
      [] c[1] = "Universe" ->
            <<Universe(IF c[2] = None THEN 0 ELSE c[2][2]), gen>>
      [] c[1] = "Hole" -> <<Hole, gen>>
      [] c[1] \in {"String", "Char", "Int", "Float"} -> <<Constant(c), gen>>
      [] c[1] = "Var" -> <<Free(User(c[2])), gen>>
      [] c[1] = "Pi" -> pi_to_core(c[2], c[3], c[4], gen)
      [] c[1] = "Lam" -> lam_to_core(c[2], c[3], gen)
      [] c[1] = "Arrow" ->
            Then(to_core(c[2], gen + 1), LAMBDA ann :
            Then(to_core(c[3], ann[2]), LAMBDA body :
            <<bind("Pi", arrow_name(gen), ann[1], body[1]), body[2]>>))
      [] c[1] = "App" ->
            Then(to_core(c[2], gen), LAMBDA fn :
            Then(to_core(c[3], fn[2]), LAMBDA arg :
            <<App(fn[1], arg[1]), arg[2]>>))

\* concrete::Declaration
CClaim(name, ann) == <<"Claim", name, ann>>
CDefinition(name, params, body) == <<"Definition", name, params, body>>

\* core::RawDefinition and core::Definition
RawDefinition(name, term, ann) == [name |-> name, term |-> term, ann |-> ann]
Definition(name, term, ann) == [name |-> name, term |-> term, ann |-> ann]

\* core::Module
Module(name, definitions) == [name |-> name, definitions |-> definitions]

RECURSIVE declarations_to_core(_, _, _, _, _)
\* The loop of impl ToCore<core::RawModule> for concrete::Module, from
\* declaration i on: <<definitions, counter>>.
declarations_to_core(declarations, i, prev_claim, definitions, gen) ==
    IF i > Len(declarations) THEN <<definitions, gen>>
    ELSE LET d == declarations[i]
         IN IF d[1] = "Claim"
            THEN IF prev_claim # None
                 THEN declarations_to_core(declarations, i + 1, None,
                        Append(definitions,
                               RawDefinition(prev_claim[2][1], Hole, prev_claim[2][2])),
                        gen)
                 ELSE Then(to_core(d[3], gen), LAMBDA ann :
                      declarations_to_core(declarations, i + 1,
                            Some(<<d[2], ann[1]>>), definitions, ann[2]))
            ELSE Then(lam_to_core(d[3], d[4], gen), LAMBDA term :
                    IF prev_claim = None
                    THEN declarations_to_core(declarations, i + 1, None,
                            Append(definitions, RawDefinition(d[2], term[1], Hole)),
                            term[2])
                    ELSE IF prev_claim[2][1] = d[2]
                    THEN declarations_to_core(declarations, i + 1, None,
                            Append(definitions,
                                   RawDefinition(d[2], term[1], prev_claim[2][2])),
                            term[2])
                    ELSE declarations_to_core(declarations, i + 1, None,
                            definitions
                            \o <<RawDefinition(prev_claim[2][1], Hole, prev_claim[2][2]),
                                 RawDefinition(d[2], term[1], Hole)>>,
                            term[2]))

\* impl ToCore<core::RawModule> for concrete::Module
module_to_core(declarations, gen) ==
    declarations_to_core(declarations, 1, None, <<>>, gen)

---------------------------------------------------------------------------
(* Inputs *)

\* The u64 a written integer literal is parsed to.
U64(n) == Bytes(n, 8)

Type0 == CUniverse(None)
Type1 == CUniverse(Some(1))
Type2 == CUniverse(Some(2))

\* \x : ann => body, \x => body and (x : ann) -> body
Lam1(x, ann, body) == CLam(<< <<(<<x>>), Some(ann)>> >>, body)
LamHole(x, body) == CLam(<< <<(<<x>>), None>> >>, body)
Pi1(x, ann, body) == CPi(<<x>>, ann, body)

\* \a : Type => \x : a => x  and  (a : Type) -> a -> a
IdFn == Lam1("a", Type0, Lam1("x", CVar("a"), CVar("x")))
IdTy == Pi1("a", Type0, CArrow(CVar("a"), CVar("a")))
\* \a : Type 2 => \x : a => x
IdFn2 == Lam1("a", Type2, Lam1("x", CVar("a"), CVar("x")))
\* \a : Type => \b : Type => \x : a => \y : b => x
ConstFn ==
    Lam1("a", Type0, Lam1("b", Type0,
        Lam1("x", CVar("a"), Lam1("y", CVar("b"), CVar("x")))))

\* (a : Type) -> (b : Type) -> a -> b -> a
ConstTy ==
    Pi1("a", Type0, Pi1("b", Type0,
        CArrow(CVar("a"), CArrow(CVar("b"), CVar("a")))))

\* (\x : Type 1 => g x) Type : a redex whose body applies a neutral head
\* to the parameter.
RedexNeutralArg == CApp(Lam1("x", Type1, CApp(CVar("g"), CVar("x"))), Type0)

\* (h : Type -> Type) -> (\x : Type => h x) a
PiOverRedex ==
    Pi1("h", CArrow(Type0, Type0),
        CApp(Lam1("x", Type0, CApp(CVar("h"), CVar("x"))), CVar("a")))

\* Terms given to normalize, infer and check (as the term).
TermPool ==
    { Type0, Type1, CVar("a"), CVar("g"), CVar("f"), CVar("x"), CVar("id"),
      CString("s"), CChar("c"), CInt(U64(1)), CInt(U64(300)), CFloat(1), CHole,
      IdFn, IdTy, IdFn2, ConstFn, ConstTy,
      Lam1("y", CApp(Lam1("x", Type1, CVar("x")), Type0), CVar("y")),
      CApp(CApp(IdFn, IdTy), IdFn),
      CApp(CApp(CApp(CApp(ConstFn, IdTy), Type0), IdFn), Type0),
      CApp(CApp(IdFn, Type0), CArrow(Type0, Type0)),
      CApp(CApp(IdFn2, Type1), CArrow(Type0, Type0)),
      CApp(CApp(CVar("id"), Type1), CArrow(Type0, Type0)),
      CApp(IdFn, CVar("a")),
      CApp(CVar("g"), Type0), CApp(CVar("f"), Type0), CApp(Type0, Type0),
      CApp(Type0, CVar("x")), CApp(CString("s"), CHole), CApp(CVar("x"), CHole),
      CApp(CVar("a"), CInt(U64(1))),
      RedexNeutralArg,
      CApp(Lam1("x", Type1, CVar("x")), Type0),
      CApp(Lam1("x", Type1, Lam1("y", CVar("x"), CVar("y"))), Type0),
      CApp(Lam1("x", Type1, Pi1("y", CVar("x"), CVar("x"))), Type0),
      Lam1("F", PiOverRedex, CApp(CVar("F"), Lam1("y", Type0, CVar("y")))),
      Pi1("x", Type0, CVar("x")), Pi1("x", Type1, Type0), Pi1("x", Type0, Type2),
      CArrow(Type0, Type0), CArrow(CVar("a"), CVar("a")), CArrow(CVar("a"), Type1),
      LamHole("v", Type0), LamHole("v", CVar("v")),
      LamHole("a", Lam1("x", CVar("a"), CVar("x"))),
      CAnn(LamHole("a", Lam1("x", CVar("a"), CVar("x"))),
           Pi1("A", Type0, CArrow(CVar("A"), CVar("A")))),
      CAnn(LamHole("a", CVar("a")), Type0),
      CAnn(CInt(U64(1)), CString("s")),
      Pi1("x", CString("s"), CHole), Pi1("x", Type0, CString("s")),
      Pi1("x", CVar("a"), CVar("x")), CArrow(Type0, CVar("g")),
      Lam1("y", CString("s"), CVar("zz")), Lam1("y", CVar("g"), CHole) }

\* Types, given to normalize and infer like the terms.
TypePool ==
    { CArrow(Type1, Type0),
      Pi1("x", Type1, CApp(CVar("g"), CVar("x"))),
      Pi1("A", Type0, CArrow(CVar("A"), CVar("A"))),
      Pi1("w", RedexNeutralArg, Type1),
      PiOverRedex }

\* Binders written in groups, and arrows inside and around them.
SugarPool ==
    { CLam(<< <<(<<"x">>), None>>, <<(<<"y">>), Some(Type0)>>, <<(<<"z">>), None>> >>,
           CVar("x")),
      CLam(<< <<(<<"x">>), Some(Type0)>>, <<(<<"y">>), Some(Type0)>>,
              <<(<<"z">>), None>> >>, CVar("x")),
      CLam(<< <<(<<"x", "y">>), Some(Type0)>>, <<(<<"z">>), None>> >>, CVar("x")),
      CLam(<< <<(<<"x", "y">>), Some(CArrow(CVar("a"), CVar("a")))>> >>, CVar("y")),
      CLam(<< <<(<<"a">>), Some(Type0)>>, <<(<<"x", "y">>), Some(CVar("a"))>> >>,
           CVar("y")),
      Pi1("a", Type0, CPi(<<"x", "y", "z">>, CVar("a"), CVar("x"))),
      CPi(<<"x", "y", "z">>, CVar("a"), CVar("x")),
      CPi(<<"x", "y">>, CArrow(CVar("a"), CVar("a")), CVar("y")),
      CPi(<<"a", "b">>, Type0, CArrow(CVar("a"), CVar("b"))),
      Pi1("a", Type0, Pi1("x", CVar("a"), CVar("a"))),
      CArrow(CVar("a"), CArrow(CVar("b"), CVar("a"))),
      CArrow(CArrow(CVar("a"), CVar("a")), CVar("a")),
      CArrow(Pi1("x", Type0, CVar("x")), Pi1("y", Type0, CVar("x"))),
      CParens(CArrow(CVar("x"), CVar("x"))) }

\* Universes of every level and the arrows between them.
LevelPool ==
    { CUniverse(Some(i)) : i \in 0..MaxLevel }
    \cup { CArrow(CUniverse(Some(i)), CUniverse(Some(j))) : i, j \in 0..MaxLevel }

\* Raw terms the parser never produces: the names of the primitive types.
RawTypeNames == { Constant(<<name>>) : name \in TypeNames }

\* check(term, type): pairs of a term and the type it is checked against.
CheckPool ==
    { <<Type0, Type1>>, <<Type0, Type0>>, <<Type1, Type2>>,
      <<CVar("a"), Type0>>, <<CVar("a"), Type1>>, <<CVar("x"), Type0>>,
      <<CHole, Type0>>, <<CString("s"), Type0>>, <<CString("s"), CString("s")>>,
      <<IdFn, IdTy>>, <<IdFn, Pi1("A", Type0, CArrow(CVar("A"), CVar("A")))>>,
      <<IdFn, Type1>>, <<LamHole("v", Type0), Type1>>,
      <<Lam1("v", CVar("x"), CVar("x")), Type0>>,
      <<LamHole("v", CHole), CApp(CVar("g"), Type0)>>,
      <<Lam1("v", Type0, CVar("v")), CVar("a")>>,
      <<LamHole("a", Lam1("x", CVar("a"), CVar("x"))),
        Pi1("A", Type0, CArrow(CVar("A"), CVar("A")))>>,
      <<LamHole("a", LamHole("x", CVar("x"))), IdTy>>,
      <<LamHole("v", CVar("v")), CArrow(Type0, Type0)>>,
      <<LamHole("v", CVar("v")), CArrow(Type1, Type1)>>,
      <<LamHole("v", Type0), CArrow(Type0, Type1)>>,
      <<LamHole("v", Type0), Pi1("w", RedexNeutralArg, Type1)>>,
      <<LamHole("v", CVar("a")), CArrow(CApp(CVar("g"), Type0), Type0)>>,
      <<Lam1("v", Type0, CVar("v")), CArrow(Type0, Type0)>>,
      <<CApp(CVar("g"), Type0), Type0>>, <<CApp(CVar("f"), Type0), Type0>>,
      <<CApp(CVar("f"), Type0), CApp(CVar("g"), Type0)>>,
      <<CApp(CApp(CVar("id"), Type1), Type0), Type1>>,
      <<CVar("f"), Pi1("x", Type1, CApp(CVar("g"), CVar("x")))>>,
      <<CVar("v"), CApp(CVar("g"), Type0)>>,
      <<CVar("v"), CApp(CVar("g"), CApp(Lam1("y", Type1, CVar("y")), Type0))>> }

\* Integer literals: 1, 300, 70000, 2^31, 2^32 + 5, 2^63 and 2^64 - 1.
IntLiterals ==
    { U64(1), U64(300), U64(70000), <<0, 0, 0, 128, 0, 0, 0, 0>>,
      <<5, 0, 0, 0, 1, 0, 0, 0>>, <<0, 0, 0, 0, 0, 0, 0, 128>>,
      <<255, 255, 255, 255, 255, 255, 255, 255>> }

IntTypeNames ==
    {"U8Type", "U16Type", "U32Type", "U64Type", "I8Type", "I16Type", "I32Type", "I64Type"}

\* check(term, type name): literals, and a lambda
CheckConstPool ==
    { <<Lam1("v", Type0, CVar("v")), Constant(<<"U8Type">>)>>,
      <<LamHole("v", CHole), Constant(<<"StringType">>)>> } \cup
    { <<CInt(n), Constant(<<ty>>)>> : n \in IntLiterals, ty \in IntTypeNames }
    \cup { <<CInt(U64(n)), Constant(<<ty>>)>> :
                n \in {1, 16777217}, ty \in {"F32Type", "F64Type", "StringType", "CharType"} }
    \cup { <<CFloat(n), Constant(<<ty>>)>> :
                n \in {1, 16777217}, ty \in {"F32Type", "F64Type", "U8Type", "I64Type"} }
    \cup { <<lit, Constant(<<ty>>)>> :
                lit \in {CString("s"), CChar("c")},
                ty \in {"StringType", "CharType", "U8Type", "I32Type", "F64Type"} }

\* Entries a context is built from: a name with the type it is bound at ...
BinderPool ==
    { <<"a", Type0>>, <<"g", CArrow(Type1, Type0)>>,
      <<"f", Pi1("x", Type1, CApp(CVar("g"), CVar("x")))>>,
      <<"v", CApp(CVar("g"), CApp(Lam1("x", Type1, CVar("x")), Type0))>> }

\* ... or with the term it is let-bound to.
LetPool == { <<"id", IdFn2>>, <<"a", Type1>> }

\* Core terms no parser produces: bound variables outside every scope.
DanglingPool == { Bound(0), Bound(1) }

\* The tests' parse helper for core terms: a raw term without holes and
\* without numeric literals, read as a core term.
RECURSIVE IsCoreTerm(_)
IsCoreTerm(t) ==
    CASE t[1] = "Hole" -> FALSE
      [] t[1] = "Constant" -> t[2][1] \notin {"Int", "Float"}
      [] t[1] \in {"Pi", "Lam"} -> IsCoreTerm(t[3]) /\ IsCoreTerm(t[4])
      [] t[1] \in {"Ann", "App"} -> IsCoreTerm(t[2]) /\ IsCoreTerm(t[3])
      [] OTHER -> TRUE

---------------------------------------------------------------------------
(* Module checking: semantics::check_module *)

\* The body of the loop of check_module for one definition:
\* Ok carries <<elaborated term, annotation value>>.
check_definition(context, definition, gen) ==
    IF definition.ann[1] = "Hole"
    THEN infer(context, definition.term, gen, StackDepth)
    ELSE Try(infer(context, definition.ann, gen, StackDepth), LAMBDA ann :
         Try(FromInternal(normalize(context, ann[2][1], ann[3], StackDepth)),
             LAMBDA simp :
         Try(check(context, definition.term, simp[2], simp[3], StackDepth),
             LAMBDA elab_term :
         Ok(<<elab_term[2], simp[2]>>, elab_term[3]))))

---------------------------------------------------------------------------
(* State *)

VARIABLES
    genId,        \* the process-wide counter behind GenId::fresh()
    context,      \* the Context in use
    call,         \* the last call of normalize, infer or check:
                  \*   <<function, arguments..., counter at entry>>
    result,       \* the call's kind with what the call returned
    moduleName,   \* the name of the module given, concrete and desugared
    source,       \* the declarations of the concrete module given
    rawModule,    \* its desugared definitions
    definitions,  \* the definitions check_module has elaborated so far
    phase,        \* "source", "checking" or "done"
    outcome       \* what check_module returned

vars ==
    <<genId, context, call, result, moduleName, source, rawModule, definitions, phase,
      outcome>>
callVars == <<call, result>>

\* What the call of the state returned.
Returned == result[2]
moduleVars == <<moduleName, source, rawModule, definitions, phase, outcome>>

NoCall == <<"none">>

\* The state of a process that calls normalize, infer and check directly.
Init ==
    /\ genId = 0
    /\ context = <<>>
    /\ call = NoCall
    /\ result = NoCall
    /\ moduleName = ""
    /\ source = <<>>
    /\ rawModule = <<>>
    /\ definitions = <<>>
    /\ phase = "none"
    /\ outcome = NoCall

\* GenId::fresh(), called by code outside the calls modelled here.
Fresh ==
    /\ call = NoCall
    /\ context = <<>>
    /\ genId < MaxGenId
    /\ genId' = genId + 1
    /\ UNCHANGED <<context, call, result>>
    /\ UNCHANGED moduleVars

\* A binder is added the way infer adds one: the annotation is elaborated by
\* infer_universe, normalized, and the context extended with the value.
ExtendWith(kind, x, ty) ==
    /\ call = NoCall
    /\ Len(context) < MaxContext
    /\ Then(to_core(ty, genId), LAMBDA raw :
       Then(infer_universe(context, raw[1], raw[2], StackDepth), LAMBDA elab :
            /\ IsOk(elab)
            /\ Then(normalize(context, elab[2][1], elab[3], StackDepth), LAMBDA ann :
                    /\ IsOk(ann)
                    /\ context' = IF kind = "Lam"
                                  THEN extend_lam(context, User(x), ann[2])
                                  ELSE extend_pi(context, User(x), ann[2])
                    /\ genId' = ann[3])))
    /\ UNCHANGED <<call, result>>
    /\ UNCHANGED moduleVars

ExtendLam == \E b \in BinderPool : ExtendWith("Lam", b[1], b[2])
ExtendPi == \E b \in BinderPool : ExtendWith("Pi", b[1], b[2])

\* A let entry is added the way check_module adds one for a definition
\* without declared type.
ExtendLet ==
    \E b \in LetPool :
        /\ call = NoCall
        /\ Len(context) < MaxContext
        /\ Then(to_core(b[2], genId), LAMBDA raw :
           Then(infer(context, raw[1], raw[2], StackDepth), LAMBDA r :
                /\ IsOk(r)
                /\ context' = extend_let(context, User(b[1]), r[2][2], r[2][1])
                /\ genId' = r[3]))
        /\ UNCHANGED <<call, result>>
        /\ UNCHANGED moduleVars

NormalizeTerm(term, gen) ==
    /\ call = NoCall
    /\ call' = <<"normalize", term, gen>>
    /\ result' = <<"normalize", normalize(context, term, gen, StackDepth)>>
    /\ genId' = result'[2][3]
    /\ UNCHANGED context
    /\ UNCHANGED moduleVars

Normalize ==
    \/ \E t \in TermPool \cup TypePool :
            LET raw == to_core(t, genId)
            IN IsCoreTerm(raw[1]) /\ NormalizeTerm(raw[1], raw[2])
    \/ \E term \in DanglingPool : NormalizeTerm(term, genId)

InferRaw(raw, gen) ==
    /\ call = NoCall
    /\ call' = <<"infer", raw, gen>>
    /\ result' = <<"infer", infer(context, raw, gen, StackDepth)>>
    /\ genId' = result'[2][3]
    /\ UNCHANGED context
    /\ UNCHANGED moduleVars

Infer ==
    \/ \E t \in TermPool \cup TypePool \cup LevelPool :
            LET raw == to_core(t, genId) IN InferRaw(raw[1], raw[2])
    \/ \E raw \in RawTypeNames : InferRaw(raw, genId)

\* check against the value of a type, obtained as INFER/ANN obtains it.
CheckRaw(raw, ty, gen) ==
    /\ call = NoCall
    /\ Then(infer_universe(context, ty, gen, StackDepth), LAMBDA elab :
            /\ IsOk(elab)
            /\ Then(normalize(context, elab[2][1], elab[3], StackDepth),
                    LAMBDA expected :
                    /\ IsOk(expected)
                    /\ call' = <<"check", raw, expected[2], expected[3]>>
                    /\ result' = <<"check", check(context, raw, expected[2],
                                                  expected[3], StackDepth)>>
                    /\ genId' = result'[2][3]))
    /\ UNCHANGED context
    /\ UNCHANGED moduleVars

Check ==
    \/ \E p \in CheckPool :
            LET raw == to_core(p[1], genId)
                rawTy == to_core(p[2], raw[2])
            IN CheckRaw(raw[1], rawTy[1], rawTy[2])
    \/ \E p \in CheckConstPool :
            LET raw == to_core(p[1], genId) IN CheckRaw(raw[1], p[2], raw[2])

Next ==
    \/ Fresh
    \/ ExtendLam
    \/ ExtendPi
    \/ ExtendLet
    \/ Normalize
    \/ Infer
    \/ Check

Spec == Init /\ [][Next]_vars

---------------------------------------------------------------------------
(* The module checker as a state machine: one step per definition *)

\* Declarations a module is made of, in groups that are written together.
ItemPool ==
    { <<CDefinition("a", <<>>, Type1)>>,
      <<CDefinition("a", <<>>, CVar("a"))>>,
      <<CDefinition("a", <<>>, CString("s"))>>,
      <<CDefinition("b", <<>>, CVar("a"))>>,
      <<CClaim("b", CVar("a")), CDefinition("b", <<>>, Type0)>>,
      <<CClaim("c", CVar("b")), CDefinition("c", <<>>, Type0)>>,
      <<CClaim("s", CString("t")), CDefinition("s", <<>>, CString("u"))>>,
      <<CClaim("id", Pi1("a", Type1, CArrow(CVar("a"), CVar("a")))),
        CDefinition("id", << <<(<<"a">>), None>>, <<(<<"x">>), None>> >>, CVar("x"))>>,
      <<CDefinition("c", <<>>, CApp(CApp(CVar("id"), Type0), CVar("b")))>>,
      <<CClaim("d", Type0)>>,
      <<CClaim("d", Type1), CDefinition("e", <<>>, Type0)>>,
      <<CDefinition("h", <<>>, CHole)>>,
      <<CClaim("h", Type0), CDefinition("h", <<>>, CHole)>>,
      <<CDefinition("f", << <<(<<"x">>), None>> >>, CVar("x"))>>,
      <<CClaim("p", CArrow(CHole, Type0)), CDefinition("p", <<>>, Type0)>>,
      <<CDefinition("q", <<>>, CApp(CVar("id"), CHole))>>,
      <<CDefinition("r", <<>>, CAnn(Type0, CHole))>>,
      <<CDefinition("k", <<>>, CApp(Lam1("f", CArrow(Type1, Type1), CVar("f")),
                                    LamHole("x", CVar("x"))))>>,
      <<CDefinition("a", <<>>, CString("s")),
        CDefinition("c", <<>>, Lam1("x", CVar("b"), CVar("x")))>> }

RECURSIVE Sources(_)
\* The modules of at most n items.
Sources(n) ==
    IF n = 0 THEN { <<>> }
    ELSE LET shorter == Sources(n - 1)
         IN shorter \cup { s \o item : s \in shorter, item \in ItemPool }

ModuleNames == {"prelude", "test"}

ModuleInit ==
    /\ genId \in 0..MaxGenId
    /\ context = <<>>
    /\ call = NoCall
    /\ result = NoCall
    /\ moduleName \in ModuleNames
    /\ source \in Sources(MaxDefinitions)
    /\ rawModule = <<>>
    /\ definitions = <<>>
    /\ phase = "source"
    /\ outcome = NoCall

\* Module::to_core
Desugar ==
    /\ phase = "source"
    /\ Then(module_to_core(source, genId), LAMBDA raw :
            /\ rawModule' = raw[1]
            /\ genId' = raw[2])
    /\ phase' = "checking"
    /\ UNCHANGED <<context, moduleName, source, definitions, outcome>>
    /\ UNCHANGED callVars

\* One iteration of the loop where the extended context is dropped: the next
\* definition is checked in the context of this one.
CheckDefinitionContextKept ==
    /\ phase = "checking"
    /\ Len(definitions) < Len(rawModule)
    /\ Then(rawModule[Len(definitions) + 1], LAMBDA definition :
       Then(check_definition(context, definition, genId), LAMBDA r :
            /\ genId' = r[3]
            /\ IF IsOk(r)
               THEN /\ definitions' = Append(definitions,
                          Definition(definition.name, r[2][1], r[2][2]))
                    /\ UNCHANGED <<context, phase, outcome>>
               ELSE /\ phase' = "done"
                    /\ outcome' = <<"Err", r[2]>>
                    /\ UNCHANGED <<context, definitions>>))
    /\ UNCHANGED <<moduleName, source, rawModule>>
    /\ UNCHANGED callVars

\* One iteration of the loop where a failure ends the loop instead of the
\* function: the definitions elaborated so far are returned as the module.
CheckDefinitionBreaks ==
    /\ phase = "checking"
    /\ Len(definitions) < Len(rawModule)
    /\ Then(rawModule[Len(definitions) + 1], LAMBDA definition :
       Then(check_definition(context, definition, genId), LAMBDA r :
            /\ genId' = r[3]
            /\ IF IsOk(r)
               THEN /\ context' = extend_let(context, User(definition.name),
                                             r[2][2], r[2][1])
                    /\ definitions' = Append(definitions,
                          Definition(definition.name, r[2][1], r[2][2]))
                    /\ UNCHANGED <<phase, outcome>>
               ELSE /\ phase' = "done"
                    /\ outcome' = <<"Ok", Module(moduleName, definitions)>>
                    /\ UNCHANGED <<context, definitions>>))
    /\ UNCHANGED <<moduleName, source, rawModule>>
    /\ UNCHANGED callVars

\* One iteration of the loop of check_module.
CheckDefinition ==
    /\ phase = "checking"
    /\ Len(definitions) < Len(rawModule)
    /\ Then(rawModule[Len(definitions) + 1], LAMBDA definition :
       Then(check_definition(context, definition, genId), LAMBDA r :
            /\ genId' = r[3]
            /\ IF IsOk(r)
               THEN /\ context' = extend_let(context, User(definition.name),
                                             r[2][2], r[2][1])
                    /\ definitions' = Append(definitions,
                          Definition(definition.name, r[2][1], r[2][2]))
                    /\ UNCHANGED <<phase, outcome>>
               ELSE /\ phase' = "done"
                    /\ outcome' = <<"Err", r[2]>>
                    /\ UNCHANGED <<context, definitions>>))
    /\ UNCHANGED <<moduleName, source, rawModule>>
    /\ UNCHANGED callVars

\* The loop is over: Ok(Module { name, definitions }).
ReturnModule ==
    /\ phase = "checking"
    /\ Len(definitions) = Len(rawModule)
    /\ phase' = "done"
    /\ outcome' = <<"Ok", Module(moduleName, definitions)>>
    /\ UNCHANGED <<genId, context, moduleName, source, rawModule, definitions>>
    /\ UNCHANGED callVars

ModuleNext ==
    \/ Desugar
    \/ CheckDefinition
    \/ ReturnModule

ModuleSpec == ModuleInit /\ [][ModuleNext]_vars

---------------------------------------------------------------------------
(* The desugarer on terms: one call of to_core per behaviour *)

\* Concrete terms as the parser hands them to to_core.
ConcretePool == TermPool \cup TypePool \cup LevelPool \cup SugarPool

\* concrete::Term::to_core, with the counter wherever earlier calls of
\* GenId::fresh() have left it.
ToCore ==
    \E c \in ConcretePool :
        /\ call = NoCall
        /\ call' = <<"to_core", c, genId>>
        /\ result' = <<"to_core", to_core(c, genId)>>
        /\ genId' = result'[2][2]
        /\ UNCHANGED context
        /\ UNCHANGED moduleVars

DesugarNext ==
    \/ Fresh
    \/ ToCore

DesugarSpec == Init /\ [][DesugarNext]_vars

---------------------------------------------------------------------------
(* Notions the properties are stated with *)

RECURSIVE FreeNames(_)
\* The names of the free variables of a term, value or neutral form.
FreeNames(t) ==
    CASE t[1] = "Var" -> IF t[2][1] = "Free" THEN {t[2][2]} ELSE {}
      [] t[1] \in {"Pi", "Lam"} -> FreeNames(t[3]) \cup FreeNames(t[4])
      [] t[1] \in {"Ann", "App"} -> FreeNames(t[2]) \cup FreeNames(t[3])
      [] t[1] = "Neutral" -> FreeNames(t[2])
      [] OTHER -> {}

RECURSIVE Subst(_, _, _)
\* t with the term a in place of every free occurrence of the name.
Subst(t, name, a) ==
    CASE t[1] = "Var" -> IF t[2] = <<"Free", name>> THEN a ELSE t
      [] t[1] \in {"Pi", "Lam"} ->
            <<t[1], t[2], Subst(t[3], name, a), Subst(t[4], name, a)>>
      [] t[1] \in {"Ann", "App"} ->
            <<t[1], Subst(t[2], name, a), Subst(t[3], name, a)>>
      [] OTHER -> t

RECURSIVE LocallyClosed(_, _)
\* No bound variable of t points outside the d binders around it.
LocallyClosed(t, d) ==
    CASE t[1] = "Var" -> t[2][1] = "Free" \/ t[2][2] < d
      [] t[1] \in {"Pi", "Lam"} -> LocallyClosed(t[3], d) /\ LocallyClosed(t[4], d + 1)
      [] t[1] \in {"Ann", "App"} -> LocallyClosed(t[2], d) /\ LocallyClosed(t[3], d)
      [] OTHER -> TRUE

\* An elaborated literal as the raw literal it was elaborated from.
RawFromConstant(c) ==
    CASE c[1] \in {"U8", "U16", "U32", "U64", "I8", "I16", "I32", "I64"} ->
            <<"Int", c[2] \o [i \in 1..(8 - Len(c[2])) |-> 0]>>
      [] c[1] \in {"F32", "F64"} -> <<"Float", c[2]>>
      [] OTHER -> c

RECURSIVE RawFromTerm(_)
\* A core term embedded as a raw term.
RawFromTerm(t) ==
    CASE t[1] = "Constant" -> Constant(RawFromConstant(t[2]))
      [] t[1] \in {"Pi", "Lam"} -> <<t[1], t[2], RawFromTerm(t[3]), RawFromTerm(t[4])>>
      [] t[1] \in {"Ann", "App"} -> <<t[1], RawFromTerm(t[2]), RawFromTerm(t[3])>>
      [] OTHER -> t

\* What an error is, without the names and types it carries.
ErrorKind(e) == IF e[1] = "StackOverflow" THEN e ELSE <<e[1], e[2]>>

IsInternal(e) == e[1] = "TypeError" /\ e[2] = "Internal"

\* The call of the state, made again with the global counter at gen.
Rerun(gen) ==
    CASE call[1] = "normalize" -> normalize(context, call[2], gen, StackDepth)
      [] call[1] = "infer" -> infer(context, call[2], gen, StackDepth)
      [] call[1] = "check" -> check(context, call[2], call[3], gen, StackDepth)

\* Two results of the same call agree up to alpha-equivalence.
SameResult(r1, r2) ==
    IF IsOk(r1) /\ IsOk(r2)
    THEN IF call[1] = "infer"
         THEN term_eq(r1[2][1], r2[2][1]) /\ term_eq(r1[2][2], r2[2][2])
         ELSE term_eq(r1[2], r2[2])
    ELSE ~IsOk(r1) /\ ~IsOk(r2) /\ ErrorKind(r1[2]) = ErrorKind(r2[2])

EntryGen == call[Len(call)]

---------------------------------------------------------------------------
(* Properties *)

\* C1: check_module returns on every finite raw module: no call made while a
\* definition is checked recurses without end (here: the recursion of
\* normalize, infer and check never goes StackDepth deep), also when a
\* definition reuses an earlier name, mentions it in its own body, and a
\* later definition uses it in a type.  Stated under ModuleSpec.
C1_CheckModuleTerminates ==
    ~(phase = "done" /\ outcome[1] = "Err" /\ outcome[2] = StackOverflow)

\* C2: when infer succeeds on an application f a with f : Pi(x:V1).V2, the
\* type returned is V2 with the elaborated argument in place of x, and the
\* name the Pi scope was opened against is not free in it.
C2_AppTypeIsSubstituted ==
    (call[1] = "infer" /\ call[2][1] = "App" /\ IsOk(Returned)) =>
        Then(infer(context, call[2][2], EntryGen, StackDepth), LAMBDA fn :
        Then(unbind(fn[2][2], fn[3]), LAMBDA u :
        Then(normalize(context,
                       Subst(TermFromValue(u.body), u.name, Returned[2][1][3]),
                       genId, StackDepth), LAMBDA substituted :
             /\ u.name \notin FreeNames(Returned[2][2])
             /\ IsOk(substituted)
             /\ term_eq(Returned[2][2], substituted[2]))))

\* C3: normalize of a redex (\x : A => t) a is alpha-equivalent to the
\* normal form of t with a substituted for x.
C3_BetaReduction ==
    (call[1] = "normalize" /\ call[2][1] = "App" /\ call[2][2][1] = "Lam"
     /\ IsOk(Returned)) =>
        Then(unbind(call[2][2], genId), LAMBDA u :
        Then(normalize(context, Subst(u.body, u.name, call[2][3]), u.gen, StackDepth),
             LAMBDA reduct :
             IsOk(reduct) /\ term_eq(Returned[2], reduct[2])))

\* C4: the result of a call does not depend on the fresh names handed out:
\* the same call made with the counter further on ends the same way, with
\* alpha-equivalent values.
C4_FreshNamesDoNotMatter ==
    (call # NoCall) =>
        \A d \in 1..(MaxGenId + 1) : SameResult(Returned, Rerun(EntryGen + d))

\* C5: on raw input without dangling bound variables, infer and check never
\* fail with an error that comes from an InternalError of normalize.
C5_NoInternalError ==
    (call[1] \in {"infer", "check"} /\ LocallyClosed(call[2], 0) /\ ~IsOk(Returned)) =>
        ~IsInternal(Returned[2])

\* C6: when the declared annotation of a definition is not a hole and
\* elaborates to something whose type is not a universe, check_module returns
\* TypeError::ExpectedUniverse for it.  Stated under ModuleSpec.
C6_AnnotationMustBeType ==
    (phase = "done" /\ outcome[1] = "Err") =>
        Then(rawModule[Len(definitions) + 1], LAMBDA definition :
        Then(infer(context, definition.ann, genId, StackDepth), LAMBDA ann :
             (definition.ann[1] # "Hole" /\ IsOk(ann) /\ ann[2][2][1] # "Universe") =>
                (outcome[2][1] = "TypeError" /\ outcome[2][2] = "ExpectedUniverse")))

\* C7: when check(ctx, r, V) returns Ok(t), infer of t in ctx succeeds with
\* a type alpha-equivalent to V.
C7_CheckedTermInfersItsType ==
    (call[1] = "check" /\ IsOk(Returned)) =>
        Then(infer(context, RawFromTerm(Returned[2]), genId, StackDepth),
             LAMBDA again : IsOk(again) /\ term_eq(again[2][2], call[3]))

\* C8: normalize is idempotent: the value it returns, embedded as a term and
\* normalized again in the same context, is alpha-equivalent to itself.
C8_NormalizeIdempotent ==
    (call[1] = "normalize" /\ IsOk(Returned)) =>
        Then(normalize(context, TermFromValue(Returned[2]), genId, StackDepth),
             LAMBDA again : IsOk(again) /\ term_eq(again[2], Returned[2]))

\* A normalize call that reduced a redex to a function or to a stuck
\* application, in a context with entries.
C8_Witness ==
    /\ call[1] = "normalize" /\ IsOk(Returned)
    /\ call[2][1] = "App"
    /\ Returned[2][1] \in {"Lam", "Neutral"}
    /\ context # <<>>

\* C9: infer of Type i returns Type (i+1); infer of a Pi whose domain has a
\* type at level i and whose codomain, under the Pi binder, has a type at
\* level j returns the universe of level max(i, j); no universe is given
\* itself as type.
C9_UniversesStratified ==
    (call[1] = "infer") =>
        /\ call[2][1] = "Universe" =>
                /\ IsOk(Returned)
                /\ Returned[2][2] = Universe(call[2][2] + 1)
                /\ Returned[2][2] # Returned[2][1]
        /\ (call[2][1] = "Pi" /\ IsOk(Returned)) =>
                Then(unbind(call[2], EntryGen), LAMBDA u :
                Then(infer_universe(context, u.ann, u.gen, StackDepth), LAMBDA dom :
                Then(normalize(context, dom[2][1], dom[3], StackDepth), LAMBDA simp :
                Then(infer_universe(extend_pi(context, u.name, simp[2]), u.body,
                                    simp[3], StackDepth), LAMBDA cod :
                     Returned[2][2] = Universe(IF dom[2][2] >= cod[2][2]
                                               THEN dom[2][2] ELSE cod[2][2])))))
        /\ (IsOk(Returned) /\ Returned[2][1][1] = "Universe") =>
                Returned[2][2] # Returned[2][1]

\* infer has returned the level of a Pi whose codomain is typed at a higher
\* level than its domain.
C9_Witness ==
    /\ call[1] = "infer" /\ IsOk(Returned)
    /\ call[2][1] = "Pi"
    /\ call[2][3] = Universe(0) /\ call[2][4] = Universe(MaxLevel)
    /\ Returned[2][2] = Universe(MaxLevel + 1)

\* (\a : Type => \x : a => x) Type (Type -> Type) and Type -> Type
IdAppTyArrTy == CApp(CApp(IdFn, Type0), CArrow(Type0, Type0))

\* C10: infer in the empty context succeeds on
\* (\a : Type => \x : a => x) Type (Type -> Type), with type Type -> Type.
C10_IdAppTyArrTy ==
    (call[1] = "infer" /\ context = <<>>
     /\ term_eq(call[2], to_core(IdAppTyArrTy, 0)[1])) =>
        /\ IsOk(Returned)
        /\ term_eq(Returned[2][2],
                   normalize(<<>>, to_core(CArrow(Type0, Type0), 0)[1], 1, StackDepth)[2])

\* The literals and the type names whose pairs have no coercion.
Incompatible(literal, type) ==
    \/ literal = "Int" /\ type \in {"StringType", "CharType"}
    \/ literal = "Float" /\ type \in IntTypeNames
    \/ literal \in {"String", "Char"} /\ type \in IntTypeNames \cup {"F32Type", "F64Type"}

\* C11: check of a literal against a primitive type it has no coercion to
\* (an integer literal against String or Char, a float literal against an
\* integer type, a string or char literal against a numeric type) returns
\* TypeError::Mismatch, which carries the expected type.
C11_IncompatibleLiteralIsMismatch ==
    (call[1] = "check" /\ call[2][1] = "Constant" /\ call[3][1] = "Constant"
     /\ Incompatible(call[2][2][1], call[3][2][1])) =>
        /\ ~IsOk(Returned)
        /\ Returned[2][1] = "TypeError" /\ Returned[2][2] = "Mismatch"
        /\ Returned[2][3][2] = call[3]

\* The kind, the width and the signedness of the integer types.
IntKinds ==
    [ U8Type |-> <<"U8", 8, FALSE>>, U16Type |-> <<"U16", 16, FALSE>>,
      U32Type |-> <<"U32", 32, FALSE>>, U64Type |-> <<"U64", 64, FALSE>>,
      I8Type |-> <<"I8", 8, TRUE>>, I16Type |-> <<"I16", 16, TRUE>>,
      I32Type |-> <<"I32", 32, TRUE>>, I64Type |-> <<"I64", 64, TRUE>> ]

\* The number a sequence of bytes holds when read as two's complement.
TwosComplement(bytes) ==
    Unsigned(SubSeq(bytes, 1, Len(bytes) - 1))
    + Pow2(8 * (Len(bytes) - 1))
      * (IF bytes[Len(bytes)] >= 128 THEN bytes[Len(bytes)] - 256 ELSE bytes[Len(bytes)])

\* n below 2^31 taken modulo 2^w, as an unsigned or as a signed number.
Wrapped(n, w, signed) ==
    IF signed THEN ((n + Pow2(w - 1)) % Pow2(w)) - Pow2(w - 1) ELSE n % Pow2(w)

\* C12: check of an integer literal n against an integer type of width w
\* succeeds for every n, with a constant of that type's kind whose w bits are
\* the low w bits of n (n modulo 2^w); where the numbers fit the arithmetic
\* of the model, the number the constant holds, read as two's complement for
\* the signed kinds, is n wrapped to the width.
C12_IntLiteralWraps ==
    (call[1] = "check" /\ call[2][1] = "Constant" /\ call[2][2][1] = "Int"
     /\ call[3][1] = "Constant" /\ call[3][2][1] \in IntTypeNames) =>
        LET kind == IntKinds[call[3][2][1]]
            n == call[2][2][2]
        IN /\ IsOk(Returned)
           /\ Returned[2][1] = "Constant" /\ Returned[2][2][1] = kind[1]
           /\ Len(Returned[2][2][2]) = kind[2] \div 8
           /\ \A i \in 1..(kind[2] \div 8) : Returned[2][2][2][i] = n[i]
           /\ (kind[2] <= 16 /\ \A i \in 4..8 : n[i] = 0) =>
                (IF kind[3] THEN TwosComplement(Returned[2][2][2])
                 ELSE Unsigned(Returned[2][2][2])) = Wrapped(Unsigned(n), kind[2], kind[3])

\* check has wrapped a literal that does not fit: 2^32 + 5 against I32, or
\* 300 against I8.
C12_Witness ==
    /\ call[1] = "check" /\ call[2][1] = "Constant" /\ IsOk(Returned)
    /\ \/ /\ call[2][2] = <<"Int", <<5, 0, 0, 0, 1, 0, 0, 0>>>>
          /\ Returned[2] = Constant(<<"I32", <<5, 0, 0, 0>>>>)
       \/ /\ call[2][2] = <<"Int", U64(300)>>
          /\ Returned[2] = Constant(<<"I8", <<44>>>>)

RECURSIVE HolesAccepted(_, _)
\* Every hole of a raw term is the parameter annotation of a lambda that
\* stands where a term is checked (the expression of an annotation, the
\* argument of an application, the body of such a lambda); mode is "check"
\* or "infer", the way the term itself is reached.
HolesAccepted(raw, mode) ==
    CASE raw[1] = "Hole" -> FALSE
      [] raw[1] = "Lam" ->
            IF raw[3][1] = "Hole"
            THEN mode = "check" /\ HolesAccepted(raw[4], "check")
            ELSE HolesAccepted(raw[3], "infer") /\ HolesAccepted(raw[4], "infer")
      [] raw[1] = "Pi" -> HolesAccepted(raw[3], "infer") /\ HolesAccepted(raw[4], "infer")
      [] raw[1] = "Ann" -> HolesAccepted(raw[3], "infer") /\ HolesAccepted(raw[2], "check")
      [] raw[1] = "App" -> HolesAccepted(raw[2], "infer") /\ HolesAccepted(raw[3], "check")
      [] OTHER -> TRUE

RECURSIVE NoHole(_)
\* No hole anywhere in a term or a value.
NoHole(t) ==
    CASE t[1] = "Hole" -> FALSE
      [] t[1] \in {"Pi", "Lam"} -> NoHole(t[3]) /\ NoHole(t[4])
      [] t[1] \in {"Ann", "App"} -> NoHole(t[2]) /\ NoHole(t[3])
      [] t[1] = "Neutral" -> NoHole(t[2])
      [] OTHER -> TRUE

\* C13: in every definition check_module has accepted, a hole of the raw
\* definition is either its declared type (the body is then inferred) or the
\* parameter annotation of a lambda in a checked position; a declared type
\* that is written has no hole outside such lambdas, and neither the
\* elaborated term nor the recorded type contains a hole.  Stated under
\* ModuleSpec, where check_module reaches infer and check.
C13_HolesOnlyWhereAccepted ==
    \A i \in 1..Len(definitions) :
        /\ IF rawModule[i].ann[1] = "Hole"
           THEN HolesAccepted(rawModule[i].term, "infer")
           ELSE /\ HolesAccepted(rawModule[i].ann, "infer")
                /\ HolesAccepted(rawModule[i].term, "check")
        /\ NoHole(definitions[i].term)
        /\ NoHole(definitions[i].ann)

\* check_module has returned a module with a definition whose declared type
\* was a hole and a definition whose parameters, written without
\* annotations, were checked against the Pi of its declared type.
C13_Witness ==
    /\ phase = "done" /\ outcome[1] = "Ok"
    /\ \E i \in 1..Len(rawModule) : rawModule[i].ann[1] = "Hole"
    /\ \E i \in 1..Len(rawModule) :
            /\ rawModule[i].term[1] = "Lam" /\ rawModule[i].term[3][1] = "Hole"
            /\ definitions[i].term[1] = "Lam" /\ definitions[i].ann[1] = "Pi"

\* C14: check_module starts from the empty context; while it runs, the
\* context holds exactly one let entry for each definition elaborated so
\* far, in definition order, made of the definition's name, its elaborated
\* type and its elaborated term, so definition k is checked with the entries
\* of definitions 1..k-1 and nothing else; the module returned on success has
\* the name of the module given and one definition per raw definition, with
\* the same names in the same order.  Stated under ModuleSpec.
C14_DefinitionsInOrder ==
    /\ phase = "source" => context = <<>>
    /\ Len(context) = Len(definitions)
    /\ Len(definitions) <= Len(rawModule)
    /\ \A i \in 1..Len(definitions) :
            /\ definitions[i].name = rawModule[i].name
            /\ context[i] = <<"Let", User(rawModule[i].name),
                              definitions[i].ann, definitions[i].term>>
    /\ (phase = "done" /\ outcome[1] = "Ok") =>
            /\ outcome[2].name = moduleName
            /\ Len(outcome[2].definitions) = Len(rawModule)
            /\ \A i \in 1..Len(rawModule) :
                    outcome[2].definitions[i].name = rawModule[i].name
            /\ outcome[2].definitions = definitions

\* check_module has returned a module of three definitions, the second of
\* which uses the first and the third the second.
C14_Witness ==
    /\ phase = "done" /\ outcome[1] = "Ok"
    /\ Len(outcome[2].definitions) = 3
    /\ User(rawModule[1].name) \in FreeNames(rawModule[2].term)
    /\ User(rawModule[2].name) \in
            FreeNames(rawModule[3].term) \cup FreeNames(rawModule[3].ann)
    /\ Len(context) = 3

\* C15: an iteration of check_module's loop whose definition fails ends
\* check_module with exactly the error of that definition, with no module,
\* without a further definition being elaborated or the context extended;
\* an iteration that succeeds goes on to the next definition; once
\* check_module has returned nothing more happens.  Stated under ModuleSpec.
C15_FirstErrorIsReturned ==
    [][ /\ (phase = "checking" /\ Len(definitions) < Len(rawModule)) =>
            LET r == check_definition(context, rawModule[Len(definitions) + 1], genId)
            IN IF IsOk(r)
               THEN phase' = "checking" /\ Len(definitions') = Len(definitions) + 1
               ELSE /\ phase' = "done"
                    /\ outcome' = <<"Err", r[2]>>
                    /\ definitions' = definitions
                    /\ context' = context
                    /\ genId' = r[3]
        /\ phase = "done" => UNCHANGED vars ]_vars

\* check_module has returned the error of the second definition of three: a
\* hole as body, while the third, a lambda without annotation and without
\* declared type, would fail with another error.
C15_Witness ==
    /\ phase = "done" /\ outcome[1] = "Err"
    /\ Len(definitions) = 1 /\ Len(rawModule) = 3
    /\ outcome[2][1] = "TypeError" /\ outcome[2][2] = "UnableToElaborateHole"
    /\ rawModule[3].ann[1] = "Hole"
    /\ rawModule[3].term[1] = "Lam" /\ rawModule[3].term[3][1] = "Hole"

RECURSIVE Resolved(_, _)
\* What the declarations from the i-th on are resolved into, one entry per
\* claim and per definition that no claim directly before it names: the
\* name, the claim's annotation (if any) and the definition (if any).
Resolved(declarations, i) ==
    IF i > Len(declarations) THEN <<>>
    ELSE IF declarations[i][1] = "Claim"
    THEN IF /\ i < Len(declarations)
            /\ declarations[i + 1][1] = "Definition"
            /\ declarations[i + 1][2] = declarations[i][2]
         THEN << [name |-> declarations[i][2], ann |-> Some(declarations[i][3]),
                  definition |-> Some(declarations[i + 1])] >>
              \o Resolved(declarations, i + 2)
         ELSE << [name |-> declarations[i][2], ann |-> Some(declarations[i][3]),
                  definition |-> None] >>
              \o Resolved(declarations, i + 1)
    ELSE << [name |-> declarations[i][2], ann |-> None,
             definition |-> Some(declarations[i])] >>
         \o Resolved(declarations, i + 1)

\* C16: the desugared module has exactly one raw definition per claim, with
\* the claim's name and annotation and either the body of the definition of
\* that name directly after it or a hole as term, and one per definition
\* without such a claim, with a hole as annotation; in declaration order.
\* Stated under ModuleSpec.
C16_EveryClaimResolved ==
    (phase # "source") =>
        LET expected == Resolved(source, 1)
        IN /\ Len(rawModule) = Len(expected)
           /\ \A j \in 1..Len(expected) :
                (j <= Len(rawModule)) =>
                    /\ rawModule[j].name = expected[j].name
                    /\ IF expected[j].ann = None THEN rawModule[j].ann = Hole
                       ELSE term_eq(rawModule[j].ann, to_core(expected[j].ann[2], 0)[1])
                    /\ IF expected[j].definition = None THEN rawModule[j].term = Hole
                       ELSE term_eq(rawModule[j].term,
                                    lam_to_core(expected[j].definition[2][3],
                                                expected[j].definition[2][4], 0)[1])

RECURSIVE FullyReduced(_, _, _)
\* A value with the argument terms of its neutral applications reduced as
\* well: <<tree, counter>>. An argument that does not normalize is kept.
FullyReduced(ctx, v, gen) ==
    CASE v[1] \in {"Pi", "Lam"} ->
            LET u == unbind(v, gen)
            IN Then(FullyReduced(ctx, u.ann, u.gen), LAMBDA ann :
               Then(FullyReduced(IF v[1] = "Pi" THEN extend_pi(ctx, u.name, u.ann)
                                 ELSE extend_lam(ctx, u.name, u.ann),
                                 u.body, ann[2]), LAMBDA body :
               <<bind(v[1], u.name, ann[1], body[1]), body[2]>>))
      [] v[1] = "Neutral" ->
            Then(FullyReduced(ctx, v[2], gen), LAMBDA n : <<Neutral(n[1]), n[2]>>)
      [] v[1] = "App" ->
            Then(FullyReduced(ctx, v[2], gen), LAMBDA head :
            Then(normalize(ctx, v[3], head[2], StackDepth), LAMBDA arg :
            IF IsOk(arg)
            THEN Then(FullyReduced(ctx, arg[2], arg[3]), LAMBDA reduced :
                      <<App(head[1], reduced[1]), reduced[2]>>)
            ELSE <<App(head[1], v[3]), arg[3]>>))
      [] OTHER -> <<v, gen>>

\* Two types of the context are equal up to alpha-conversion and reduction.
Convertible(ctx, a, b, gen) ==
    term_eq(FullyReduced(ctx, a, gen)[1], FullyReduced(ctx, b, gen)[1])

\* C17: check rejects a term with TypeError::Mismatch only when the type
\* found and the type expected are not convertible: two types equal up to
\* alpha-conversion, beta-reduction and unfolding of let-bound names are
\* never reported as a mismatch, also when they differ in the argument of an
\* application whose head is a lambda- or Pi-bound variable.
C17_ConvertibleTypesAreEqual ==
    (call[1] = "check" /\ ~IsOk(Returned)
     /\ Returned[2][1] = "TypeError" /\ Returned[2][2] = "Mismatch") =>
        ~Convertible(context, Returned[2][3][1], Returned[2][3][2], genId)

\* C18: infer of a free variable x returns the variable itself with the
\* annotation of the last context entry for x, whether the entry is a
\* lambda, a Pi or a let, so an earlier entry for x is never the one used;
\* it returns TypeError::UndefinedName exactly when no entry is for x.
C18_InferVarMostRecent ==
    (call[1] = "infer" /\ call[2][1] = "Var" /\ call[2][2][1] = "Free") =>
        LET name == call[2][2][2]
            entries == {i \in 1..Len(context) : context[i][2] = name}
        IN IF entries = {}
           THEN Returned = Err(TypeError("UndefinedName", name), EntryGen)
           ELSE \E last \in entries :
                    /\ \A i \in entries : i <= last
                    /\ Returned = Ok(<<call[2], context[last][3]>>, EntryGen)

\* infer has returned the type of a name that has two entries with
\* different annotations, the last of them a let.
C18_Witness ==
    /\ call[1] = "infer" /\ call[2][1] = "Var" /\ IsOk(Returned)
    /\ Len(context) = 2
    /\ context[1][2] = call[2][2][2] /\ context[2][2] = call[2][2][2]
    /\ context[2][1] = "Let"
    /\ context[1][3] # context[2][3]
    /\ Returned[2][2] = context[2][3]

\* C19: check of a lambda, annotated or not, against a value that is no Pi
\* returns TypeError::UnexpectedFunction with the expected type, whatever the
\* annotation and the body are, and hands out no fresh name; infer of
\* (\a => a) : Type returns that error with Type as the expected type.
C19_UnexpectedFunction ==
    /\ (call[1] = "check" /\ call[2][1] = "Lam" /\ call[3][1] # "Pi") =>
            Returned = Err(TypeError("UnexpectedFunction", call[3]), EntryGen)
    /\ (call[1] = "infer"
        /\ term_eq(call[2], to_core(CAnn(LamHole("a", CVar("a")), Type0), 0)[1])) =>
            /\ ~IsOk(Returned)
            /\ Returned[2] = TypeError("UnexpectedFunction", Universe(0))

\* check has rejected a lambda whose annotation names an undefined variable
\* against a universe, or one whose annotation and body are holes against a
\* neutral type.
C19_Witness ==
    /\ call[1] = "check" /\ call[2][1] = "Lam" /\ ~IsOk(Returned)
    /\ \/ call[2][3] = Free(User("x")) /\ call[3] = Universe(0)
       \/ call[2][3] = Hole /\ call[2][4] = Hole /\ call[3][1] = "Neutral"
    /\ Returned[2][2] = "UnexpectedFunction"

\* C20: infer of an application f a first infers f: when that fails the
\* error of f is the result; when it succeeds with a type that is no Pi the
\* result is TypeError::ArgAppliedToNonFunction with that type, and a is not
\* looked at: no error of a is returned and no fresh name is handed out
\* after f.
C20_ArgAppliedToNonFunction ==
    (call[1] = "infer" /\ call[2][1] = "App") =>
        Then(infer(context, call[2][2], EntryGen, StackDepth), LAMBDA fn :
             /\ ~IsOk(fn) => Returned = fn
             /\ (IsOk(fn) /\ fn[2][2][1] # "Pi") =>
                    Returned = Err(TypeError("ArgAppliedToNonFunction", fn[2][2]), fn[3]))

\* infer has rejected the application of a string, whose type is String, to
\* a hole, or of Type to an undefined variable.
C20_Witness ==
    /\ call[1] = "infer" /\ call[2][1] = "App" /\ ~IsOk(Returned)
    /\ Returned[2][2] = "ArgAppliedToNonFunction"
    /\ \/ call[2][3] = Hole /\ Returned[2][3] = Constant(<<"StringType">>)
       \/ /\ call[2][3] = Free(User("x")) /\ lookup_binder(context, User("x")) = None
          /\ Returned[2][3] = Universe(1)

\* C21: infer of an annotated lambda \x : R => r that succeeds returns the
\* lambda over the elaborated annotation and the elaborated body, and as its
\* type the Pi over the value V1 of the annotation and the type V2 inferred
\* for the body under x : V1, with the occurrences of the parameter in V2
\* bound by that Pi; nested lambdas give nested Pis:
\* \a : Type => \x : a => x has the type (a : Type) -> a -> a, and the
\* constant function the type (a : Type) -> (b : Type) -> a -> b -> a.
C21_InferLamIsPi ==
    /\ (call[1] = "infer" /\ call[2][1] = "Lam" /\ call[2][3][1] # "Hole"
        /\ IsOk(Returned)) =>
            LET u == unbind(call[2], EntryGen)
            IN Then(infer_universe(context, u.ann, u.gen, StackDepth), LAMBDA R :
               /\ IsOk(R)
               /\ Then(normalize(context, R[2][1], R[3], StackDepth), LAMBDA V1 :
                  /\ IsOk(V1)
                  /\ Then(infer(extend_lam(context, u.name, V1[2]), u.body, V1[3],
                                StackDepth), LAMBDA r :
                     /\ IsOk(r)
                     /\ Returned[2][1][1] = "Lam"
                     /\ term_eq(Returned[2][1][3], R[2][1])
                     /\ term_eq(Returned[2][1][4], close(r[2][1], u.name, 0))
                     /\ Returned[2][2][1] = "Pi"
                     /\ term_eq(Returned[2][2][3], V1[2])
                     /\ term_eq(Returned[2][2][4], close(r[2][2], u.name, 0))
                     /\ u.name \notin FreeNames(Returned[2][2]))))
    /\ \A p \in {<<IdFn, IdTy>>, <<ConstFn, ConstTy>>} :
            (call[1] = "infer" /\ term_eq(call[2], to_core(p[1], 0)[1])) =>
                /\ IsOk(Returned)
                /\ term_eq(Returned[2][2],
                           normalize(<<>>, to_core(p[2], 0)[1], 0, StackDepth)[2])

\* infer has returned, for the constant function of four nested lambdas,
\* four nested Pis whose innermost body is the parameter bound by the
\* outermost of them.
C21_Witness ==
    /\ call[1] = "infer" /\ call[2][1] = "Lam" /\ IsOk(Returned)
    /\ Returned[2][2][1] = "Pi"
    /\ term_eq(call[2], to_core(ConstFn, 0)[1])
    /\ Returned[2][2][4][4][4][4] = Neutral(Bound(3))

\* C22: normalize of a free variable looks at the most recent context entry
\* for its name and at no earlier one: under a lambda or Pi entry it returns
\* the variable as a neutral value, under a let entry the normal form of the
\* term the entry binds, and without entry InternalError::UndefinedName with
\* the name; normalize of a bound variable returns
\* InternalError::UnsubstitutedDebruijnIndex.
C22_NormalizeVar ==
    (call[1] = "normalize" /\ call[2][1] = "Var") =>
        IF call[2][2][1] = "Bound"
        THEN Returned = Err(InternalError("UnsubstitutedDebruijnIndex", call[2][2][2]),
                            EntryGen)
        ELSE LET name == call[2][2][2]
                 entries == {i \in 1..Len(context) : context[i][2] = name}
             IN IF entries = {}
                THEN Returned = Err(InternalError("UndefinedName", name), EntryGen)
                ELSE \E last \in entries :
                        /\ \A i \in entries : i <= last
                        /\ context[last][1] \in {"Lam", "Pi"} =>
                                Returned = Ok(Neutral(call[2]), EntryGen)
                        /\ context[last][1] = "Let" =>
                                SameResult(Returned,
                                    normalize(context, context[last][4], EntryGen,
                                              StackDepth))

\* normalize has returned Type 1 for a name that a lambda entry binds and a
\* later let entry binds to Type 1.
C22_Witness ==
    /\ call[1] = "normalize" /\ call[2][1] = "Var" /\ IsOk(Returned)
    /\ Len(context) = 2
    /\ context[1][2] = call[2][2][2] /\ context[2][2] = call[2][2][2]
    /\ context[1][1] = "Lam" /\ context[2][1] = "Let"
    /\ Returned[2] = Universe(1)

\* The type inferred for a term in a type position is no universe.
NotUniverse(r) == IsOk(r) /\ r[2][2][1] # "Universe"

\* The error that carries the type found in place of a universe.
ExpectedUniverseOf(r) == Err(TypeError("ExpectedUniverse", r[2][2]), r[3])

\* C23: whenever a term in a type position (R of r : R, the domain or the
\* codomain of a Pi, the parameter annotation of a lambda that is inferred)
\* elaborates but its inferred type is no universe, infer returns
\* TypeError::ExpectedUniverse with the type found; the annotated
\* expression, the codomain or the body behind it is not examined: no error
\* of theirs is returned and no fresh name is handed out for them.
C23_ExpectedUniverse ==
    call[1] = "infer" =>
        /\ call[2][1] = "Ann" =>
                Then(infer(context, call[2][3], EntryGen, StackDepth), LAMBDA ty :
                     NotUniverse(ty) => Returned = ExpectedUniverseOf(ty))
        /\ (call[2][1] = "Lam" /\ call[2][3][1] # "Hole") =>
                LET u == unbind(call[2], EntryGen)
                IN Then(infer(context, u.ann, u.gen, StackDepth), LAMBDA ann :
                        NotUniverse(ann) => Returned = ExpectedUniverseOf(ann))
        /\ call[2][1] = "Pi" =>
                LET u == unbind(call[2], EntryGen)
                IN Then(infer(context, u.ann, u.gen, StackDepth), LAMBDA ann :
                   /\ NotUniverse(ann) => Returned = ExpectedUniverseOf(ann)
                   /\ (IsOk(ann) /\ ~NotUniverse(ann)) =>
                        Then(normalize(context, ann[2][1], ann[3], StackDepth),
                             LAMBDA simp_ann :
                        IsOk(simp_ann) =>
                            Then(infer(extend_pi(context, u.name, simp_ann[2]), u.body,
                                       simp_ann[3], StackDepth), LAMBDA body :
                                 NotUniverse(body) =>
                                    Returned = ExpectedUniverseOf(body))))

\* infer has returned ExpectedUniverse with the type String for a Pi whose
\* domain is a string and whose codomain is a hole.
C23_Witness ==
    /\ call[1] = "infer" /\ call[2][1] = "Pi" /\ ~IsOk(Returned)
    /\ call[2][3] = Constant(<<"String", "s">>) /\ call[2][4] = Hole
    /\ Returned[2] = TypeError("ExpectedUniverse", Constant(<<"StringType">>))

\* C24: infer of a raw constant does not depend on the context: a string
\* literal has the type String and a character literal the type Char, both
\* elaborated unchanged; each of the twelve primitive type names elaborates
\* to itself with the type Type 0; an integer literal gives
\* TypeError::AmbiguousIntLiteral and a floating point literal
\* TypeError::AmbiguousFloatLiteral.
C24_InferConst ==
    (call[1] = "infer" /\ call[2][1] = "Constant") =>
        LET c == call[2][2]
        IN /\ c[1] = "String" =>
                Returned = Ok(<<call[2], Constant(<<"StringType">>)>>, EntryGen)
           /\ c[1] = "Char" =>
                Returned = Ok(<<call[2], Constant(<<"CharType">>)>>, EntryGen)
           /\ c[1] \in TypeNames => Returned = Ok(<<call[2], Universe(0)>>, EntryGen)
           /\ c[1] = "Int" =>
                Returned = Err(TypeError("AmbiguousIntLiteral", <<>>), EntryGen)
           /\ c[1] = "Float" =>
                Returned = Err(TypeError("AmbiguousFloatLiteral", <<>>), EntryGen)
           /\ c[1] \in {"String", "Char", "Int", "Float"} \cup TypeNames

\* infer has rejected an integer literal as ambiguous in a context of two
\* entries.
C24_Witness ==
    /\ call[1] = "infer" /\ call[2][1] = "Constant" /\ call[2][2][1] = "Int"
    /\ Len(context) = 2
    /\ ~IsOk(Returned) /\ Returned[2][2] = "AmbiguousIntLiteral"

RECURSIVE BinderNames(_)
\* The names kept in the patterns of the binders of a raw term.
BinderNames(t) ==
    CASE t[1] \in {"Pi", "Lam"} -> {t[2]} \cup BinderNames(t[3]) \cup BinderNames(t[4])
      [] t[1] \in {"Ann", "App"} -> BinderNames(t[2]) \cup BinderNames(t[3])
      [] OTHER -> {}

\* C25: desugaring an arrow A -> B yields a Pi over A and B whose binder is
\* a generated name: no user name, none of the names generated before the
\* call, and none generated for the arrows inside A and B; so no free
\* variable of B is captured (B is the body unchanged) and the result is
\* alpha-equivalent to (x : A) -> B for every x not free in B, as
\* (a : Type) -> a -> a is to (a : Type) -> (x : a) -> a.
C25_ArrowBinderFresh ==
    /\ (call[1] = "to_core" /\ call[2][1] = "Arrow") =>
            LET raw == Returned[1]
                A == to_core(call[2][2], EntryGen + 1)
                B == to_core(call[2][3], A[2])
            IN /\ raw[1] = "Pi"
               /\ raw[2][1] = "Gen" /\ raw[2][2] >= EntryGen /\ raw[2][2] < Returned[2]
               /\ raw[2] \notin BinderNames(raw[3]) \cup BinderNames(raw[4])
               /\ raw[2] \notin FreeNames(B[1])
               /\ term_eq(raw[3], A[1])
               /\ raw[4] = B[1]
               /\ FreeNames(raw) = FreeNames(A[1]) \cup FreeNames(B[1])
               /\ \A x \in {"x", "a", "w"} :
                    User(x) \notin FreeNames(B[1]) =>
                        term_eq(raw, to_core(Pi1(x, call[2][2], call[2][3]),
                                             EntryGen)[1])
    /\ (call[1] = "to_core" /\ call[2] = IdTy) =>
            term_eq(Returned[1],
                    to_core(Pi1("a", Type0, Pi1("x", CVar("a"), CVar("a"))), 0)[1])

\* to_core has desugared a -> b -> a after a name had been generated: two
\* nested Pis with different generated binders, a free in both.
C25_Witness ==
    /\ call[1] = "to_core" /\ call[2][1] = "Arrow" /\ EntryGen > 0
    /\ Returned[1][4][1] = "Pi"
    /\ Returned[1][2][1] = "Gen" /\ Returned[1][4][2][1] = "Gen"
    /\ Returned[1][2] # Returned[1][4][2]
    /\ Returned[1][3] = Free(User("a")) /\ Returned[1][4][4] = Free(User("a"))

RECURSIVE Spelled(_, _, _, _)
\* The binders of a group written out one by one, from binder i on:
\* (x1 : T) -> (x2 : T) -> ... and \x1 : T => \x2 : T => ...
Spelled(tag, flat, i, body) ==
    IF i > Len(flat) THEN body
    ELSE IF tag = "Pi"
    THEN CPi(<<flat[i][1]>>, flat[i][2][2], Spelled(tag, flat, i + 1, body))
    ELSE CLam(<< <<(<<flat[i][1]>>), flat[i][2]>> >>, Spelled(tag, flat, i + 1, body))

RECURSIVE NthBinder(_, _)
\* The i-th of the nested binders of a raw term, counted from the outside.
NthBinder(raw, i) == IF i = 1 THEN raw ELSE NthBinder(raw[4], i - 1)

RECURSIVE AnnOpened(_, _, _, _)
\* The annotation of binder i with the variables bound by the binders
\* around it, j-1 of them already done, named as they were written.
AnnOpened(t, flat, i, j) ==
    IF j = i THEN t
    ELSE AnnOpened(open(t, User(flat[i - j][1]), j - 1), flat, i, j + 1)

\* C26: binders written in a group desugar to nested single binders in the
\* order written, the first name outermost, each with its own copy of the
\* annotation; a lambda parameter without annotation gets a hole; the result
\* is alpha-equivalent to the desugaring of the binders written out one by
\* one.
C26_GroupedBinders ==
    (call[1] = "to_core" /\ call[2][1] \in {"Pi", "Lam"}) =>
        LET tag == call[2][1]
            flat == IF tag = "Pi"
                    THEN [i \in 1..Len(call[2][2]) |-> <<call[2][2][i], Some(call[2][3])>>]
                    ELSE FlatParams(call[2][2])
            body == IF tag = "Pi" THEN call[2][4] ELSE call[2][3]
        IN /\ term_eq(Returned[1], to_core(Spelled(tag, flat, 1, body), EntryGen)[1])
           /\ \A i \in 1..Len(flat) :
                LET b == NthBinder(Returned[1], i)
                IN /\ b[1] = tag
                   /\ b[2] = User(flat[i][1])
                   /\ flat[i][2] = None => b[3] = Hole
                   /\ flat[i][2] # None =>
                        term_eq(AnnOpened(b[3], flat, i, 1),
                                to_core(flat[i][2][2], EntryGen)[1])

\* to_core has desugared (x y z : a) -> x to three nested Pis over a whose
\* innermost body is the variable bound by the outermost.
C26_Witness ==
    /\ call[1] = "to_core" /\ call[2][1] = "Pi" /\ Len(call[2][2]) = 3
    /\ Returned[1][2] = User("x") /\ Returned[1][4][2] = User("y")
    /\ Returned[1][4][4][2] = User("z")
    /\ Returned[1][3] = Free(User("a")) /\ Returned[1][4][4][3] = Free(User("a"))
    /\ Returned[1][4][4][4] = Bound(2)

\* The names that have an entry in a context.
Entries(ctx) == {ctx[i][2] : i \in 1..Len(ctx)}

\* C27: when every free name of t has an entry in the context, every free
\* name of the value normalize(context, t) returns has one as well, at any
\* depth, the arguments of neutral applications included: the names
\* generated for the let entries of beta-reduction never get out.
C27_NoEscapedNames ==
    (call[1] = "normalize" /\ IsOk(Returned)
     /\ FreeNames(call[2]) \subseteq Entries(context)) =>
        FreeNames(Returned[2]) \subseteq Entries(context)

\* C28: the meaning of a definition is fixed when it is added to the
\* context: the term of every let entry normalizes, under the context as it
\* has grown since, to what it normalized to under the entries in scope when
\* the entry was added, also after a later definition has reused a name the
\* term mentions; and that value still has the type recorded in the entry.
C28_MeaningFixed ==
    \A k \in 1..Len(context) :
        (phase \in {"checking", "done"} /\ context[k][1] = "Let") =>
            Then(normalize(SubSeq(context, 1, k - 1), context[k][4], genId, StackDepth),
                 LAMBDA added :
            Then(normalize(context, context[k][4], genId, StackDepth), LAMBDA now :
            IsOk(added) =>
                /\ IsOk(now)
                /\ term_eq(added[2], now[2])
                /\ Then(infer(context, TermFromValue(now[2]), now[3], StackDepth),
                        LAMBDA ty :
                        IsOk(ty) /\ term_eq(ty[2][2], context[k][3]))))

\* C29: writing out the annotation of a parameter never turns an accepted
\* lambda into a rejected one: when check accepts \x => r against
\* Pi(y : V1). V2, it accepts \x : T => r against the same Pi as well, T
\* being V1 written as a term, with an alpha-equivalent elaborated term,
\* whatever the body r is, a lambda over a hole included.
C29_AnnotationKeepsAccepted ==
    (call[1] = "check" /\ call[2][1] = "Lam" /\ call[2][3] = Hole
     /\ call[3][1] = "Pi" /\ IsOk(Returned)) =>
        LET T == RawFromTerm(TermFromValue(call[3][3]))
        IN Then(check(context, <<"Lam", call[2][2], T, call[2][4]>>, call[3], EntryGen,
                      StackDepth), LAMBDA annotated :
                IsOk(annotated) /\ term_eq(annotated[2], Returned[2]))

\* A value is a type of the context: written as a term, its type is a
\* universe.
IsType(ctx, v) ==
    Then(infer(ctx, RawFromTerm(TermFromValue(v)), genId, StackDepth), LAMBDA r :
         IsOk(r) /\ r[2][2][1] = "Universe")

\* An elaborated term has the type in the context: it checks against it.
HasType(ctx, t, v) == IsOk(check(ctx, RawFromTerm(t), v, genId, StackDepth))

\* C30: in every context check_module builds and in every module it
\* returns, the annotation recorded for a definition is a value that is a
\* type under the definitions before it (a universe, the name of a primitive
\* type, a Pi, or a neutral term whose type is a universe), and the
\* elaborated term has that type; no definition is accepted against what is
\* no type.
C30_AnnotationsAreTypes ==
    /\ \A k \in 1..Len(context) :
            (phase \in {"checking", "done"} /\ context[k][1] = "Let") =>
                /\ context[k][3][1] \in {"Universe", "Constant", "Pi", "Neutral"}
                /\ IsType(SubSeq(context, 1, k - 1), context[k][3])
                /\ HasType(SubSeq(context, 1, k - 1), context[k][4], context[k][3])
    /\ (phase = "done" /\ outcome[1] = "Ok") =>
            /\ Len(outcome[2].definitions) = Len(context)
            /\ \A k \in 1..Len(context) :
                    /\ outcome[2].definitions[k].ann = context[k][3]
                    /\ outcome[2].definitions[k].term = context[k][4]

====
